---- MODULE Spec2Model ----
(***************************************************************************)
(* A model of the pix demo: the navigation shell (Game) and its three      *)
(* scenes (AceOfShadowsScene, PhoenixFlameScene, MagicWordsScene).         *)
(*                                                                         *)
(* Each class is one record-valued variable whose fields carry the names   *)
(* of the class' fields.  Each class has its own specification (SpecAce,   *)
(* SpecFlame, SpecWords, SpecGame): the scenes share no state, and the     *)
(* shell only constructs, attaches and destroys them.                      *)
(***************************************************************************)
EXTENDS Integers, Sequences, FiniteSets, TLC

VARIABLES
    now,      \* Date.now(), in ms
    ace,      \* the AceOfShadowsScene instance
    flame,    \* the PhoenixFlameScene instance
    words,    \* the MagicWordsScene instance
    game      \* the Game (navigation shell)

vars == <<now, ace, flame, words, game>>

\* ------------------------------------------------------------------------
\* Bounds of the model
\* ------------------------------------------------------------------------
MaxCards == 3          \* pile sizes 0..MaxCards stand for NUM_CARDS
MaxTime == 26000       \* the clock stops here (ms)
MaxLines == 2          \* dialogue scripts of 0..MaxLines lines
MaxScenes == 3         \* scene instances the shell may construct

\* ------------------------------------------------------------------------
\* Helpers
\* ------------------------------------------------------------------------
Min(a, b) == IF a <= b THEN a ELSE b

\* faulty variant: the bottom card is taken
LastIsFirst(s) == s[1]

Last(s) == s[Len(s)]

\* faulty variant: the card taken stays in its pile
FrontKeepsAll(s) == s

Front(s) == SubSeq(s, 1, Len(s) - 1)

Range(s) == {s[i] : i \in DOMAIN s}

\* ========================================================================
\* AceOfShadowsScene (card stacks)
\* ========================================================================
CARD_OFFSET == 4
ANIMATION_DURATION == 2000
MOVE_INTERVAL == 1000

\* frame intervals the ticker may deliver (ms)
FrameDeltas == {500, 1500}

NoAnimation == [card |-> 0]

\* lastTarget remembers the pile the latest card move went to (0 or 1)
NoTarget == -1

\* position of stack i in scene coordinates (initialize, desktop layout of
\* a 1000 x 800 screen: stackSpacing = min(1000 * 0.3, 200))
StackPos(a, i) ==
    <<500 + ((2 * i - 1) * 200) \div 2,
      400 - (a.NUM_CARDS * CARD_OFFSET) \div 2>>

\* constructor + initialize(), then Game.switchScene attaches the scene
AceNew(n) ==
    [NUM_CARDS |-> n,
     stacks |-> [i \in {0, 1} |-> IF i = 0 THEN [k \in 1..n |-> k] ELSE <<>>],
     children |-> <<>>,
     pos |-> [c \in 1..n |-> <<0, (c - 1) * CARD_OFFSET>>],
     movingToSecondStack |-> TRUE,
     lastMoveTime |-> 0,
     isAnimating |-> FALSE,
     currentAnimation |-> NoAnimation,
     lastTarget |-> NoTarget,
     ticker |-> TRUE,
     parent |-> TRUE,
     destroyed |-> FALSE]

\* the easing of update(), as the fraction EaseNum / EaseDen of the way
EaseDen == ANIMATION_DURATION * ANIMATION_DURATION

\* faulty variant: progress is not clamped to 1
EaseNumUnclamped(elapsed) ==
    IF 2 * elapsed < ANIMATION_DURATION
    THEN 2 * elapsed * elapsed
    ELSE EaseDen - 2 * (ANIMATION_DURATION - elapsed) * (ANIMATION_DURATION - elapsed)

EaseNum(elapsed) ==
    LET e == Min(elapsed, ANIMATION_DURATION)
    IN IF 2 * e < ANIMATION_DURATION
       THEN 2 * e * e
       ELSE EaseDen - 2 * (ANIMATION_DURATION - e) * (ANIMATION_DURATION - e)

Lerp(from, to, elapsed) == from + ((to - from) * EaseNum(elapsed)) \div EaseDen

\* faulty variant: an empty source pile flips the direction and the scene
\* counts as animating
AceStartNewAnimationNoSkip(a, t) ==
    [a EXCEPT !.movingToSecondStack = ~@, !.isAnimating = TRUE, !.lastMoveTime = t]

AceStartNewAnimation(a, t) ==
    LET src == IF a.movingToSecondStack THEN 0 ELSE 1
        tgt == IF a.movingToSecondStack THEN 1 ELSE 0
    IN IF Len(a.stacks[src]) = 0
       THEN [a EXCEPT !.movingToSecondStack = ~@]
       ELSE LET topCard == Last(a.stacks[src])
                targetY == Len(a.stacks[tgt]) * CARD_OFFSET
                world == <<StackPos(a, src)[1] + a.pos[topCard][1],
                           StackPos(a, src)[2] + a.pos[topCard][2]>>
                target == <<StackPos(a, tgt)[1], StackPos(a, tgt)[2] + targetY>>
            IN [a EXCEPT
                  !.stacks[src] = Front(@),
                  !.children = Append(@, topCard),
                  !.pos[topCard] = world,
                  !.currentAnimation =
                      [card |-> topCard,
                       startX |-> world[1], startY |-> world[2],
                       endX |-> target[1], endY |-> target[2],
                       startTime |-> t],
                  !.isAnimating = TRUE,
                  !.lastTarget = tgt,
                  !.lastMoveTime = t]

\* faulty variant: the finished card is detached from the scene and never handed
\* to the destination pile
AceFinishAnimationDropsCard(a) ==
    [a EXCEPT !.children = SelectSeq(@, LAMBDA c : c # a.currentAnimation.card),
              !.currentAnimation = NoAnimation,
              !.isAnimating = FALSE]

\* faulty variant: the transition record outlives the transition
AceFinishAnimationKeepsRecord(a) ==
    LET tgt == IF a.movingToSecondStack THEN 1 ELSE 0
        card == a.currentAnimation.card
    IN [a EXCEPT !.children = SelectSeq(@, LAMBDA c : c # card),
                 !.stacks[tgt] = Append(@, card),
                 !.isAnimating = FALSE]

\* faulty variant: the scene still counts as animating after the hand-over
AceFinishAnimationStaysBusy(a) ==
    LET tgt == IF a.movingToSecondStack THEN 1 ELSE 0
        card == a.currentAnimation.card
    IN [a EXCEPT !.children = SelectSeq(@, LAMBDA c : c # card),
                 !.stacks[tgt] = Append(@, card),
                 !.pos[card] = <<0, (Len(a.stacks[tgt]) + 1) * CARD_OFFSET>>,
                 !.currentAnimation = NoAnimation]

AceFinishAnimation(a) ==
    LET tgt == IF a.movingToSecondStack THEN 1 ELSE 0
        moved ==
            IF a.currentAnimation # NoAnimation
            THEN LET card == a.currentAnimation.card
                 IN [a EXCEPT
                       !.children = SelectSeq(@, LAMBDA c : c # card),
                       !.stacks[tgt] = Append(@, card),
                       !.pos[card] = <<0, (Len(a.stacks[tgt]) + 1) * CARD_OFFSET>>,
                       !.currentAnimation = NoAnimation]
            ELSE a
    IN [moved EXCEPT !.isAnimating = FALSE]

AceAdvance(a, t) ==
    IF a.isAnimating /\ a.currentAnimation # NoAnimation
    THEN LET an == a.currentAnimation
             elapsed == t - an.startTime
             placed == [a EXCEPT !.pos[an.card] =
                           <<Lerp(an.startX, an.endX, elapsed),
                             Lerp(an.startY, an.endY, elapsed)>>]
         IN IF elapsed >= ANIMATION_DURATION
            THEN AceFinishAnimation(placed)
            ELSE placed
    ELSE a

\* faulty variant: the next move starts as soon as the transition time is over
AceUpdateShortCadence(a, t) ==
    IF ~a.parent
    THEN a
    ELSE LET started ==
                 IF ~a.isAnimating /\ t - a.lastMoveTime >= ANIMATION_DURATION
                 THEN AceStartNewAnimation(a, t)
                 ELSE a
         IN AceAdvance(started, t)

AceUpdate(a, t) ==
    IF ~a.parent
    THEN a
    ELSE LET started ==
                 IF ~a.isAnimating
                    /\ t - a.lastMoveTime >= ANIMATION_DURATION + MOVE_INTERVAL
                 THEN AceStartNewAnimation(a, t)
                 ELSE a
         IN AceAdvance(started, t)

\* destroy(): the ticker callback is removed, then Container.destroy with
\* children: true detaches and destroys every child, the stacks' cards too
AceDestroyed(a) ==
    [a EXCEPT !.ticker = FALSE, !.parent = FALSE, !.destroyed = TRUE,
              !.stacks = [i \in {0, 1} |-> <<>>], !.children = <<>>]

\* one display frame: the ticker runs the registered callback
AceFrame ==
    /\ ace.ticker
    /\ \E d \in FrameDeltas :
          /\ now + d <= MaxTime
          /\ now' = now + d
          /\ ace' = AceUpdate(ace, now + d)
    /\ UNCHANGED <<flame, words, game>>

\* Game tears the scene down (Back, or a switch to another scene)
AceTeardown ==
    /\ ~ace.destroyed
    /\ ace' = AceDestroyed(ace)
    /\ UNCHANGED <<now, flame, words, game>>

InitAce ==
    /\ now = ANIMATION_DURATION + MOVE_INTERVAL
    /\ \E n \in 0..MaxCards : ace = AceNew(n)
    /\ flame = 0
    /\ words = 0
    /\ game = 0

NextAce == AceFrame \/ AceTeardown

SpecAce == InitAce /\ [][NextAce]_vars

\* ------------------------------------------------------------------------
\* C1: while the card scene is alive and no transition is in flight (that
\* is, after any number of completed move cycles), the two piles together
\* hold exactly the N cards the scene was built with.
PileCountConstant ==
    (~ace.destroyed /\ ~ace.isAnimating)
        => Len(ace.stacks[0]) + Len(ace.stacks[1]) = ace.NUM_CARDS

\* C1 witness: a pile of at least two cards after a completed move cycle
PileCountWitness ==
    /\ ~ace.destroyed
    /\ ~ace.isAnimating
    /\ ace.NUM_CARDS >= 2
    /\ Len(ace.stacks[0]) >= 1
    /\ Len(ace.stacks[1]) >= 1

\* C15: isAnimating is true exactly when a transition record exists, at
\* most one card is in flight (out of the piles, a child of the scene),
\* and a transition is started only while none is in flight.
OneTransitionInFlight ==
    /\ [](/\ ace.isAnimating <=> ace.currentAnimation # NoAnimation
          /\ ~ace.destroyed =>
                Len(ace.children) = IF ace.isAnimating THEN 1 ELSE 0)
    /\ [][(/\ ace'.currentAnimation # NoAnimation
           /\ ace'.currentAnimation # ace.currentAnimation)
              => ~ace.isAnimating /\ ace.currentAnimation = NoAnimation]_vars

\* C15 witness: a transition in flight after an earlier one was completed
SecondTransitionWitness ==
    /\ ace.isAnimating
    /\ ace.currentAnimation # NoAnimation
    /\ Len(ace.stacks[1]) >= 1
    /\ Len(ace.children) = 1

\* a card move starts in this step
AceMoveStarts ==
    ace.currentAnimation = NoAnimation /\ ace'.currentAnimation # NoAnimation

\* C16 (as claimed): a card move goes to the pile the previous move did
\* not go to.
MovesAlternate ==
    [][(AceMoveStarts /\ ace.lastTarget # NoTarget)
          => ace'.lastTarget # ace.lastTarget]_vars

\* a frame at which update() calls startNewAnimation
AceCycleBegins ==
    /\ AceFrame
    /\ ace.parent
    /\ ~ace.isAnimating
    /\ now' - ace.lastMoveTime >= ANIMATION_DURATION + MOVE_INTERVAL

AceSourceEmpty == Len(ace.stacks[IF ace.movingToSecondStack THEN 0 ELSE 1]) = 0

\* C17: a move cycle that begins with an empty source pile flips the
\* direction flag and starts no transition: the piles and the children of
\* the scene are as before and isAnimating stays false.
EmptySourceOnlyFlips ==
    [][(AceCycleBegins /\ AceSourceEmpty)
          => /\ ace'.movingToSecondStack = ~ace.movingToSecondStack
             /\ ace'.stacks = ace.stacks
             /\ ace'.children = ace.children
             /\ ace'.pos = ace.pos
             /\ ~ace'.isAnimating
             /\ ace'.currentAnimation = NoAnimation]_vars

\* C17 witness: every card was moved to the second pile and the next
\* cycle found the first pile empty and flipped the flag
FlippedOnEmptyWitness ==
    /\ ~ace.destroyed
    /\ ace.NUM_CARDS >= 2
    /\ ace.stacks[0] = <<>>
    /\ ~ace.movingToSecondStack
    /\ ~ace.isAnimating

\* a frame at which update() calls finishAnimation for the card in flight
AceMoveFinishes ==
    /\ AceFrame
    /\ ace.isAnimating
    /\ ace.currentAnimation # NoAnimation
    /\ now' - ace.currentAnimation.startTime >= ANIMATION_DURATION

\* C25: a move takes the last card of the source pile, and the finished
\* transition appends that card as the last card of the destination pile;
\* so whenever all cards have arrived in pile 1 they lie there in the
\* reverse of the order in which pile 0 was built, and back in pile 0
\* they lie in the order in which it was built.
TopCardMovesToTop ==
    /\ [][AceMoveStarts
            => LET src == IF ace.movingToSecondStack THEN 0 ELSE 1
                   n == Len(ace.stacks[src])
               IN /\ n >= 1
                  /\ ace'.currentAnimation.card = ace.stacks[src][n]
                  /\ ace'.stacks[src] = SubSeq(ace.stacks[src], 1, n - 1)
                  /\ ace'.stacks[1 - src] = ace.stacks[1 - src]]_vars
    /\ [][AceMoveFinishes
            => LET tgt == IF ace.movingToSecondStack THEN 1 ELSE 0
               IN /\ ace'.stacks[tgt]
                       = Append(ace.stacks[tgt], ace.currentAnimation.card)
                  /\ ace'.stacks[1 - tgt] = ace.stacks[1 - tgt]]_vars
    /\ []((~ace.destroyed /\ Len(ace.stacks[1]) = ace.NUM_CARDS)
            => ace.stacks[1] = [k \in 1..ace.NUM_CARDS |-> ace.NUM_CARDS + 1 - k])
    /\ []((~ace.destroyed /\ Len(ace.stacks[0]) = ace.NUM_CARDS)
            => ace.stacks[0] = [k \in 1..ace.NUM_CARDS |-> k])

\* C25 witness: MaxCards moves out of a full pile have finished
ReversedPileWitness ==
    /\ ~ace.destroyed
    /\ ace.NUM_CARDS = MaxCards
    /\ Len(ace.stacks[1]) = MaxCards
    /\ ace.stacks[1][1] = MaxCards
    /\ ace.stacks[1][MaxCards] = 1

\* C26 (as claimed): the card at index k (0-based) of a pile rests at
\* y = k * CARD_OFFSET, whether it was moved or not.
RestsWhereTransitionEnded ==
    ~ace.destroyed
      => \A i \in {0, 1} : \A k \in DOMAIN ace.stacks[i] :
            ace.pos[ace.stacks[i][k]] = <<0, (k - 1) * CARD_OFFSET>>

\* C27: as long as the scene is alive every card is in exactly one of
\* pile 0, pile 1 and the children of the scene (the card in flight), and
\* the scene holds a card exactly while a transition is in flight.
CardsPartitioned ==
    ~ace.destroyed
      => LET all == ace.stacks[0] \o ace.stacks[1] \o ace.children
         IN /\ Len(all) = ace.NUM_CARDS
            /\ {all[k] : k \in DOMAIN all} = 1..ace.NUM_CARDS
            /\ Len(ace.children) = IF ace.isAnimating THEN 1 ELSE 0
            /\ ace.isAnimating
                  => ace.children = <<ace.currentAnimation.card>>

\* C27 witness: a card in flight back to pile 0 between two piles that
\* both hold cards
InFlightBetweenPilesWitness ==
    /\ ~ace.destroyed
    /\ ace.isAnimating
    /\ ~ace.movingToSecondStack
    /\ Len(ace.stacks[0]) >= 1
    /\ Len(ace.stacks[1]) >= 1

\* C28: a card transition starts at least ANIMATION_DURATION +
\* MOVE_INTERVAL after the start of the transition before it, whether or
\* not the direction flipped in between; and a frame hands the card in
\* flight to the destination pile exactly if its time is at least the
\* start time plus ANIMATION_DURATION, so the first such frame does.
MoveCadence ==
    /\ [][(AceMoveStarts /\ ace.lastTarget # NoTarget)
            => /\ ace'.currentAnimation.startTime = now'
               /\ ace'.lastMoveTime = now'
               /\ now' - ace.lastMoveTime >= ANIMATION_DURATION + MOVE_INTERVAL]_vars
    /\ [](ace.isAnimating => ace.currentAnimation.startTime = ace.lastMoveTime)
    /\ [][(AceFrame /\ ace.isAnimating)
            => LET tgt == IF ace.movingToSecondStack THEN 1 ELSE 0
                   due == now' - ace.currentAnimation.startTime >= ANIMATION_DURATION
               IN /\ due => /\ ~ace'.isAnimating
                             /\ ace'.stacks[tgt]
                                  = Append(ace.stacks[tgt], ace.currentAnimation.card)
                  /\ ~due => /\ ace'.isAnimating
                              /\ ace'.stacks = ace.stacks]_vars

\* C28 witness: the frame at which the first transition back to pile 0
\* has started, after the flip
StartedAfterFlipWitness ==
    /\ ~ace.destroyed
    /\ ace.isAnimating
    /\ ace.lastTarget = 0
    /\ ace.lastMoveTime = now
    /\ Len(ace.stacks[0]) = 0

\* ------------------------------------------------------------------------
\* The card scene while it stays attached: the ticker runs one frame after
\* the other, each with a later clock value, and nothing tears the scene
\* down.
\* ------------------------------------------------------------------------
NextAceLive == AceFrame

SpecAceLive == InitAce /\ [][NextAceLive]_vars /\ WF_vars(AceFrame)

AllInSecond ==
    /\ Len(ace.stacks[0]) = 0
    /\ Len(ace.stacks[1]) = ace.NUM_CARDS

\* the clock of the model leaves room for two more move cycles
RoomForTwoCycles == now + 2 * (ANIMATION_DURATION + MOVE_INTERVAL) <= MaxTime

\* C29: a scene built with N >= 1 cards in pile 0 gets every card into
\* pile 1, and from there a card starts moving back to pile 0.
AllCardsArriveAndReturn ==
    /\ (ace.NUM_CARDS >= 1 /\ Len(ace.stacks[0]) = ace.NUM_CARDS /\ ace.lastTarget = NoTarget)
          ~> AllInSecond
    /\ (ace.NUM_CARDS >= 1 /\ AllInSecond /\ RoomForTwoCycles)
          ~> (ace.isAnimating /\ ace.lastTarget = 0)

\* C29 witness: all MaxCards cards went to pile 1 and the first of them
\* is on its way back
FirstCardReturnsWitness ==
    /\ ace.NUM_CARDS = MaxCards
    /\ ace.isAnimating
    /\ ace.lastTarget = 0
    /\ Len(ace.stacks[1]) = MaxCards - 1
    /\ ace.currentAnimation.card = 1

\* ------------------------------------------------------------------------
\* The interpolation of update() on its own: one transition record with
\* start and end points drawn from Coordinates, advanced frame by frame
\* and never finished, so that the interpolated position stays readable.
\* ------------------------------------------------------------------------
Coordinates == {-120, 0, 396}

\* the record startNewAnimation builds for a card at start that goes to end
EaseNew(start, end, t) ==
    [currentAnimation |-> [card |-> 1,
                           startX |-> start[1], startY |-> start[2],
                           endX |-> end[1], endY |-> end[2],
                           startTime |-> t],
     easeProgress |-> 0,
     pos |-> start]

\* "Update current animation" of update(): elapsed, progress, easeProgress
\* (kept as the numerator over EaseDen) and card.position.set
EaseAdvance(a, t) ==
    LET an == a.currentAnimation
        elapsed == t - an.startTime
    IN [a EXCEPT !.easeProgress = EaseNum(elapsed),
                 !.pos = <<Lerp(an.startX, an.endX, elapsed),
                           Lerp(an.startY, an.endY, elapsed)>>]

\* update() starts the transition and interpolates in the same call
InitEase ==
    /\ now = ANIMATION_DURATION + MOVE_INTERVAL
    /\ \E start \in Coordinates \X Coordinates, end \in Coordinates \X Coordinates :
          ace = EaseAdvance(EaseNew(start, end, now), now)
    /\ flame = 0
    /\ words = 0
    /\ game = 0

EaseFrame ==
    /\ \E d \in FrameDeltas :
          /\ now + d <= MaxTime
          /\ now' = now + d
          /\ ace' = EaseAdvance(ace, now + d)
    /\ UNCHANGED <<flame, words, game>>

NextEase == EaseFrame

SpecEase == InitEase /\ [][NextEase]_vars

\* C24: the eased fraction is 2p^2 below p = 1/2 and 1 - (2 - 2p)^2 / 2
\* from there on, with p = min(elapsed / ANIMATION_DURATION, 1); it is 0
\* at progress 0 and 1 at progress 1 and beyond; the interpolated position
\* is the start point at progress 0 and the end point at progress 1.
EaseEndpoints ==
    LET an == ace.currentAnimation
        elapsed == now - an.startTime
        p == IF elapsed <= ANIMATION_DURATION THEN elapsed ELSE ANIMATION_DURATION
        whole == ANIMATION_DURATION * ANIMATION_DURATION
    IN /\ ace.easeProgress =
             IF 2 * p < ANIMATION_DURATION
             THEN 2 * p * p
             ELSE whole - ((2 * ANIMATION_DURATION - 2 * p)
                             * (2 * ANIMATION_DURATION - 2 * p)) \div 2
       /\ elapsed = 0 => /\ ace.easeProgress = 0
                         /\ ace.pos = <<an.startX, an.startY>>
       /\ elapsed >= ANIMATION_DURATION
             => /\ ace.easeProgress = whole
                /\ ace.pos = <<an.endX, an.endY>>

\* C24 witness: a frame later than the end of the transition, the card
\* at an end point that differs from the start point in both coordinates
EaseClampedWitness ==
    LET an == ace.currentAnimation
    IN /\ now - an.startTime > ANIMATION_DURATION
       /\ an.startX # an.endX
       /\ an.startY # an.endY
       /\ ace.pos = <<an.endX, an.endY>>

\* ========================================================================
\* PhoenixFlameScene (particles)
\* ========================================================================
MAX_PARTICLES == 10
PARTICLE_LIFETIME == 40

\* elapsed-time values the ticker may pass to update(delta)
FlameDeltas == {20, 40}

\* constructor + initialize(), then Game.switchScene attaches the scene
FlameNew ==
    [particles |-> <<>>,
     children |-> {},
     emitInterval |-> TRUE,
     ticker |-> TRUE,
     parent |-> TRUE,
     spritesCreated |-> 0,
     destroyed |-> FALSE]

\* initializeParticle: the sprite is put at the emission point (the top of
\* the house); moves counts the position updates since then (every
\* velocity has speed > 0, so moves = 0 iff the sprite is at the point);
\* recycled tells that update() has re-initialized the particle
InitializedParticle(p) == [p EXCEPT !.moves = 0]

\* faulty variant: the capacity test of emitParticle is off by one
FlameHasCapacityOffByOne(f) == Len(f.particles) <= MAX_PARTICLES

FlameHasCapacity(f) == Len(f.particles) < MAX_PARTICLES

FlameEmitParticle(f) ==
    IF ~f.parent
    THEN f
    ELSE IF ~FlameHasCapacity(f)
    THEN f
    ELSE LET sprite == f.spritesCreated + 1
             particle == InitializedParticle(
                 [sprite |-> sprite, life |-> 0,
                  maxLife |-> PARTICLE_LIFETIME, moves |-> 0,
                  recycled |-> FALSE])
         IN [f EXCEPT !.particles = Append(@, particle),
                      !.children = @ \cup {sprite},
                      !.spritesCreated = sprite]

\* faulty variant: a recycled particle is moved in the same frame
FlameUpdateParticleNoContinue(p, delta) ==
    LET aged == [p EXCEPT !.life = @ + delta]
    IN IF aged.life >= aged.maxLife
       THEN [InitializedParticle(aged) EXCEPT !.life = 0, !.recycled = TRUE,
                                              !.moves = 1]
       ELSE [aged EXCEPT !.moves = @ + 1]

FlameUpdateParticle(p, delta) ==
    LET aged == [p EXCEPT !.life = @ + delta]
    IN IF aged.life >= aged.maxLife
       THEN [InitializedParticle(aged) EXCEPT !.life = 0, !.recycled = TRUE]
       ELSE [aged EXCEPT !.moves = @ + 1]

\* faulty variant: a particle at its end of life is taken out of the pool
\* and its sprite removed
FlameUpdateRemovesDead(f, delta) ==
    IF ~f.parent
    THEN f
    ELSE LET alive == SelectSeq(f.particles, LAMBDA p : p.life + delta < p.maxLife)
         IN [f EXCEPT
               !.particles = [i \in DOMAIN alive |->
                                 FlameUpdateParticle(alive[i], delta)],
               !.children = {alive[i].sprite : i \in DOMAIN alive}]

FlameUpdate(f, delta) ==
    IF ~f.parent
    THEN f
    ELSE [f EXCEPT !.particles =
             [i \in DOMAIN f.particles |-> FlameUpdateParticle(f.particles[i], delta)]]

\* destroy(): interval cleared, ticker callback removed, particles dropped
FlameDestroyed(f) ==
    [f EXCEPT !.emitInterval = FALSE, !.ticker = FALSE, !.particles = <<>>,
              !.children = {}, !.parent = FALSE, !.destroyed = TRUE]

\* the emission interval fires
FlameEmitTimer ==
    /\ flame.emitInterval
    /\ flame' = FlameEmitParticle(flame)
    /\ UNCHANGED <<now, ace, words, game>>

\* one display frame
FlameFrame ==
    /\ flame.ticker
    /\ \E delta \in FlameDeltas : flame' = FlameUpdate(flame, delta)
    /\ UNCHANGED <<now, ace, words, game>>

FlameTeardown ==
    /\ ~flame.destroyed
    /\ flame' = FlameDestroyed(flame)
    /\ UNCHANGED <<now, ace, words, game>>

InitFlame ==
    /\ now = 0
    /\ ace = 0
    /\ flame = FlameNew
    /\ words = 0
    /\ game = 0

NextFlame == FlameEmitTimer \/ FlameFrame \/ FlameTeardown

SpecFlame == InitFlame /\ [][NextFlame]_vars

\* ------------------------------------------------------------------------
\* C2: whatever the interleaving of emission-timer firings and per-frame
\* updates, the particle pool never holds more than MAX_PARTICLES
\* particles.
PoolNeverExceedsMax == Len(flame.particles) <= MAX_PARTICLES

\* C2 witness: the pool is full, particles of different ages in it
PoolFullWitness ==
    /\ Len(flame.particles) = MAX_PARTICLES
    /\ \E i, j \in DOMAIN flame.particles :
          flame.particles[i].life # flame.particles[j].life

\* C20: a particle that reaches its end of life is re-initialized in
\* place: no particle is ever found at or past maxLife, every step of a
\* live scene keeps each particle of the pool with its sprite, either
\* untouched, aged and moved, or back at life 0 at the emission point;
\* so the pool never shrinks, and all the sprites ever created are those
\* of the pool, at most MAX_PARTICLES.
RecycledInPlace ==
    /\ [](/\ flame.spritesCreated <= MAX_PARTICLES
          /\ \A i \in DOMAIN flame.particles :
                flame.particles[i].life < flame.particles[i].maxLife
          /\ ~flame.destroyed =>
                /\ Len(flame.particles) = flame.spritesCreated
                /\ \A i \in DOMAIN flame.particles : flame.particles[i].sprite = i
                /\ flame.children = DOMAIN flame.particles)
    /\ [][~flame'.destroyed =>
            /\ Len(flame'.particles) >= Len(flame.particles)
            /\ \A i \in DOMAIN flame.particles :
                  /\ flame'.particles[i].sprite = flame.particles[i].sprite
                  /\ \/ flame'.particles[i] = flame.particles[i]
                     \/ /\ flame'.particles[i].life > flame.particles[i].life
                        /\ flame'.particles[i].moves = flame.particles[i].moves + 1
                     \/ /\ flame'.particles[i].life = 0
                        /\ flame'.particles[i].moves = 0
                        /\ flame'.particles[i].recycled]_vars

\* C20 witness: the pool is full and its first particle, re-initialized
\* by update(), is back at the emission point
RecycledWitness ==
    /\ ~flame.destroyed
    /\ Len(flame.particles) = MAX_PARTICLES
    /\ flame.spritesCreated = MAX_PARTICLES
    /\ flame.particles[1].recycled
    /\ flame.particles[1].life = 0
    /\ flame.particles[1].moves = 0

\* C38: every particle has 0 <= life < maxLife, and a frame with elapsed
\* time delta either ages and moves a particle (life + delta below
\* maxLife) or recycles it: life 0, at the emission point, not moved in
\* that frame.
LifeInRangeAndRecycledAtRest ==
    /\ [](\A i \in DOMAIN flame.particles :
             /\ 0 <= flame.particles[i].life
             /\ flame.particles[i].life < flame.particles[i].maxLife)
    /\ [][FlameFrame
            => \E delta \in FlameDeltas :
                 /\ delta >= 0
                 /\ DOMAIN flame'.particles = DOMAIN flame.particles
                 /\ \A i \in DOMAIN flame.particles :
                       IF flame.particles[i].life + delta >= flame.particles[i].maxLife
                       THEN /\ flame'.particles[i].life = 0
                            /\ flame'.particles[i].moves = 0
                       ELSE /\ flame'.particles[i].life = flame.particles[i].life + delta
                            /\ flame'.particles[i].moves = flame.particles[i].moves + 1]_vars

\* C38 witness: after a frame one particle has just been recycled and
\* rests at the emission point while a younger one was aged and moved
RecycledNextToMovedWitness ==
    /\ ~flame.destroyed
    /\ \E i, j \in DOMAIN flame.particles :
          /\ flame.particles[i].recycled
          /\ flame.particles[i].life = 0
          /\ flame.particles[i].moves = 0
          /\ ~flame.particles[j].recycled
          /\ flame.particles[j].life > 0
          /\ flame.particles[j].moves = 1

\* ========================================================================
\* MagicWordsScene (dialogue)
\*
\* MagicWordsScene.ts holds the class twice: lines 1-522 (words.variant = 1,
\* the text is revealed into one PIXI.Text and the emoji sprites are
\* children of the scene) and lines 523-1209 (words.variant = 2, one sprite
\* per character inside dialogueContainer).  Both are modelled.
\* ========================================================================
CHAR_SPACING == 1
EMOJI_SPACING == -10
LINE_HEIGHT == 32
RETRY_DELAY == 1000

Variants == {1, 2}

\* the two versions of Game: part_000 (0) and part_001 (1)
ShellVersions == {0, 1}

ScreenWidths == {1000, 400}

\* --- JSON values: t is the type tag, s the characters of a string, a the
\* --- items of an array, o the members of an object
JNull == [t |-> "null", s |-> <<>>, a |-> <<>>, o |-> <<>>]

JString(chars) == [t |-> "string", s |-> chars, a |-> <<>>, o |-> <<>>]

JArray(items) == [t |-> "array", s |-> <<>>, a |-> items, o |-> <<>>]

JObject(members) == [t |-> "object", s |-> <<>>, a |-> <<>>, o |-> members]

JNumber(digits) == [t |-> "number", s |-> digits, a |-> <<>>, o |-> <<>>]

\* the value of a member that does not exist
JUndefined == [t |-> "undefined", s |-> <<>>, a |-> <<>>, o |-> <<>>]

HasKey(v, k) == k \in DOMAIN v.o

\* v[k] of JavaScript for a value that is neither null nor undefined
Get(v, k) == IF v.t = "object" /\ HasKey(v, k) THEN v.o[k] ELSE JUndefined

\* typeof: null and arrays are objects
TypeOf(v) == IF v.t \in {"null", "array", "object"} THEN "object" ELSE v.t

\* !!v
Truthy(v) ==
    CASE v.t \in {"null", "undefined"} -> FALSE
      [] v.t = "string" -> v.s # <<>>
      [] v.t = "number" -> v.s # <<"0">>
      [] OTHER -> TRUE

\* v === 'chars'
StrictEquals(v, chars) == v.t = "string" /\ v.s = chars

IsString(v, k) == TypeOf(Get(v, k)) = "string"

IsArray(v, k) == Get(v, k).t = "array"

\* --- the scripts the remote source may serve
SpeakerName == <<"N">>

EmojiName == <<"e">>

LineTexts ==
    <<  <<"h", "i">>,
        <<"a", "{", "e", "}", "{", "e", "}">>  >>

Scripts ==
    UNION {[1..n -> DOMAIN LineTexts] : n \in 0..MaxLines}

JLine(k) == JObject([name |-> JString(SpeakerName), text |-> JString(LineTexts[k])])

JEmoji == JObject([name |-> JString(EmojiName), url |-> JString(<<"u">>)])

JAvatar(position) ==
    JObject([name |-> JString(SpeakerName), url |-> JString(<<"v">>),
             position |-> JString(position)])

\* what the fetch may end in: a rejection, an HTTP error status, or a body
ValidKinds == {"valid", "validLeft", "validBare"}

MalformedKinds ==
    {"nullBody", "numberBody", "stringBody", "arrayBody",
     "noDialogue", "dialogueNotArray", "emojiesNotArray", "noAvatars",
     "badLine", "lineIsNumber", "lineNoText", "lineNameNotString",
     "badLineThenNull", "emojiNull", "emojiNoUrl",
     "avatarNull", "avatarNoName", "avatarNoPosition", "badAvatarPosition"}

Outcomes ==
    [kind : {"valid"}, script : Scripts]
    \cup [kind : {"validLeft"}, script : {<<1>>}]
    \cup [kind : {"validBare", "rejected", "httpError"} \cup MalformedKinds,
          script : {<<>>}]

Payload(outcome) ==
    LET kind == outcome.kind
        Left == <<"l", "e", "f", "t">>
        Right == <<"r", "i", "g", "h", "t">>
        Body(d, e, a) ==
            JObject([dialogue |-> JArray(d), emojies |-> JArray(e), avatars |-> JArray(a)])
        script == [i \in DOMAIN outcome.script |-> JLine(outcome.script[i])]
        e1 == <<JEmoji>>
        a1 == <<JAvatar(Right)>>
        d1 == <<JLine(1)>>
    IN CASE kind = "valid" -> Body(script, e1, a1)
         [] kind = "validLeft" -> Body(script, e1, <<JAvatar(Left)>>)
         [] kind = "validBare" ->
              JObject([dialogue |-> JArray(<<>>), emojies |-> JArray(<<>>),
                       avatars |-> JArray(<<>>), version |-> JNumber(<<"2">>)])
         [] kind = "nullBody" -> JNull
         [] kind = "numberBody" -> JNumber(<<"5">>)
         [] kind = "stringBody" -> JString(<<"x">>)
         [] kind = "arrayBody" -> JArray(d1)
         [] kind = "noDialogue" ->
              JObject([emojies |-> JArray(e1), avatars |-> JArray(a1)])
         [] kind = "dialogueNotArray" ->
              JObject([dialogue |-> JString(<<"x">>), emojies |-> JArray(e1),
                       avatars |-> JArray(a1)])
         [] kind = "emojiesNotArray" ->
              JObject([dialogue |-> JArray(d1), emojies |-> JObject([name |-> JString(EmojiName)]),
                       avatars |-> JArray(a1)])
         [] kind = "noAvatars" ->
              JObject([dialogue |-> JArray(d1), emojies |-> JArray(e1)])
         [] kind = "badLine" -> Body(<<JNull>>, e1, a1)
         [] kind = "lineIsNumber" -> Body(<<JLine(1), JNumber(<<"5">>)>>, e1, a1)
         [] kind = "lineNoText" ->
              Body(<<JObject([name |-> JString(SpeakerName)])>>, e1, a1)
         [] kind = "lineNameNotString" ->
              Body(<<JObject([name |-> JNumber(<<"5">>), text |-> JString(LineTexts[1])])>>,
                   e1, a1)
         [] kind = "badLineThenNull" ->
              Body(<<JObject([name |-> JString(SpeakerName)]), JNull>>, e1, a1)
         [] kind = "emojiNull" -> Body(d1, <<JEmoji, JNull>>, a1)
         [] kind = "emojiNoUrl" ->
              Body(d1, <<JObject([name |-> JString(EmojiName)])>>, a1)
         [] kind = "avatarNull" -> Body(d1, e1, <<JNull>>)
         [] kind = "avatarNoName" ->
              Body(d1, e1, <<JObject([url |-> JString(<<"v">>),
                                      position |-> JString(Left)])>>)
         [] kind = "avatarNoPosition" ->
              Body(d1, e1, <<JObject([name |-> JString(SpeakerName),
                                      url |-> JString(<<"v">>)])>>)
         [] kind = "badAvatarPosition" -> Body(d1, e1, <<JAvatar(<<"u", "p">>)>>)

\* faulty variant: the position of an avatar is not looked at
ValidAvatarAnyPosition(a) ==
    /\ TypeOf(a) = "object"
    /\ Truthy(a)
    /\ IsString(a, "name")
    /\ IsString(a, "url")

\* --- isValidDialogueData of the later version of the class (lines 743-773)
ValidLine(l) ==
    /\ TypeOf(l) = "object"
    /\ Truthy(l)
    /\ IsString(l, "name")
    /\ IsString(l, "text")

ValidEmoji(e) ==
    /\ TypeOf(e) = "object"
    /\ Truthy(e)
    /\ IsString(e, "name")
    /\ IsString(e, "url")

ValidAvatar(a) ==
    /\ TypeOf(a) = "object"
    /\ Truthy(a)
    /\ IsString(a, "name")
    /\ IsString(a, "url")
    /\ \/ StrictEquals(Get(a, "position"), <<"l", "e", "f", "t">>)
       \/ StrictEquals(Get(a, "position"), <<"r", "i", "g", "h", "t">>)

isValidDialogueData(data) ==
    /\ Truthy(data)
    /\ TypeOf(data) = "object"
    /\ IsArray(data, "dialogue")
    /\ IsArray(data, "emojies")
    /\ IsArray(data, "avatars")
    /\ \A i \in DOMAIN data.o.dialogue.a : ValidLine(data.o.dialogue.a[i])
    /\ \A i \in DOMAIN data.o.emojies.a : ValidEmoji(data.o.emojies.a[i])
    /\ \A i \in DOMAIN data.o.avatars.a : ValidAvatar(data.o.avatars.a[i])

\* --- isValidDialogueData of the earlier version (lines 204-224): the
\* --- entries are read without a test for null, so that reading a member
\* --- of a null entry throws a TypeError; "true", "false" or "throws"
EntryEarlier(what, v) ==
    IF v.t \in {"null", "undefined"}
    THEN "throws"
    ELSE IF CASE what = "line" -> IsString(v, "name") /\ IsString(v, "text")
              [] what = "emoji" -> IsString(v, "name") /\ IsString(v, "url")
              [] what = "avatar" ->
                   /\ IsString(v, "name")
                   /\ IsString(v, "url")
                   /\ \/ StrictEquals(Get(v, "position"), <<"l", "e", "f", "t">>)
                      \/ StrictEquals(Get(v, "position"), <<"r", "i", "g", "h", "t">>)
    THEN "true"
    ELSE "false"

\* Array.prototype.every: stops at the first entry that is not accepted
RECURSIVE EveryEarlier(_, _)
EveryEarlier(what, items) ==
    IF items = <<>>
    THEN "true"
    ELSE LET first == EntryEarlier(what, Head(items))
         IN IF first = "true" THEN EveryEarlier(what, Tail(items)) ELSE first

isValidDialogueDataEarlier(data) ==
    IF ~(/\ Truthy(data)
         /\ IsArray(data, "dialogue")
         /\ IsArray(data, "emojies")
         /\ IsArray(data, "avatars"))
    THEN "false"
    ELSE LET lines == EveryEarlier("line", data.o.dialogue.a)
             emojies == EveryEarlier("emoji", data.o.emojies.a)
         IN IF lines # "true" THEN lines
            ELSE IF emojies # "true" THEN emojies
            ELSE EveryEarlier("avatar", data.o.avatars.a)

\* "if (!this.isValidDialogueData(data)) throw": the call returns true
Accepts(variant, data) ==
    IF variant = 1
    THEN isValidDialogueDataEarlier(data) = "true"
    ELSE isValidDialogueData(data)

\* the validated body as the scene keeps it (this.dialogueData = data);
\* texture is set by preloadAssets
AsDialogueData(data) ==
    [dialogue |-> [i \in DOMAIN data.o.dialogue.a |->
                      [name |-> data.o.dialogue.a[i].o.name.s,
                       text |-> data.o.dialogue.a[i].o.text.s]],
     emojies |-> [i \in DOMAIN data.o.emojies.a |->
                      [name |-> data.o.emojies.a[i].o.name.s, texture |-> FALSE]],
     avatars |-> [i \in DOMAIN data.o.avatars.a |->
                      [name |-> data.o.avatars.a[i].o.name.s,
                       position |-> Get(data.o.avatars.a[i], "position").s,
                       texture |-> FALSE]],
     null |-> FALSE]

NoData == [dialogue |-> <<>>, emojies |-> <<>>, avatars |-> <<>>, null |-> FALSE]

\* --- parseTextWithEmojis: the regular expression /{([^}]+)}/g
FirstClose(text, from) ==
    LET closes == {k \in from..Len(text) : text[k] = "}"}
    IN IF closes = {} THEN 0 ELSE CHOOSE k \in closes : \A j \in closes : k <= j

MatchAt(text, i) ==
    /\ text[i] = "{"
    /\ i + 1 <= Len(text)
    /\ text[i + 1] # "}"
    /\ FirstClose(text, i + 1) # 0

NextMatch(text, from) ==
    LET ms == {i \in from..Len(text) : MatchAt(text, i)}
    IN IF ms = {} THEN 0 ELSE CHOOSE i \in ms : \A j \in ms : i <= j

\* the run of spaces a token is replaced by, and how far from the end of
\* the run the emoji is recorded (variant 1: six spaces, index length - 2;
\* variant 2: two spaces, index length - 1)
TokenSpaces(variant) ==
    IF variant = 1 THEN <<" ", " ", " ", " ", " ", " ">> ELSE <<" ", " ">>

\* faulty variant: the emoji is recorded past the end of the run
TokenBackPastRun(variant) == 0 - 1

TokenBack(variant) == IF variant = 1 THEN 2 ELSE 1

RECURSIVE ParseFrom(_, _, _, _, _)
ParseFrom(variant, text, lastIndex, parsedText, emojis) ==
    LET m == NextMatch(text, lastIndex)
    IN IF m = 0
       THEN [text |-> parsedText \o SubSeq(text, lastIndex, Len(text)),
             emojis |-> emojis]
       ELSE LET close == FirstClose(text, m + 1)
                grown == parsedText \o SubSeq(text, lastIndex, m - 1)
                             \o TokenSpaces(variant)
            IN ParseFrom(variant, text, close + 1, grown,
                         Append(emojis,
                                [name |-> SubSeq(text, m + 1, close - 1),
                                 index |-> Len(grown) - TokenBack(variant)]))

parseTextWithEmojis(variant, text) == ParseFrom(variant, text, 1, <<>>, <<>>)

\* --- display objects: the children of the scene are UI(kind), avatar and
\* --- (variant 1) emoji sprites; the children of dialogueContainer
\* --- (variant 2) are text and emoji sprites with a position
UI(kind) == [kind |-> kind, id |-> <<>>]

NoSprite == [kind |-> "none", id |-> <<>>]

EmptyMap == [k \in {} |-> NoSprite]

MapSet(m, key, value) ==
    [k \in DOMAIN m \cup {key} |-> IF k = key THEN value ELSE m[k]]

MapValues(m) == {m[k] : k \in DOMAIN m}

DialogueUI ==
    {UI("box"), UI("speakerName"), UI("dialogueText"),
     UI("continueButton"), UI("restartButton")}

EndOfDialogue == <<"End of dialogue">>

Fates == {"cached", "ok", "retryOk", "fail"}

NotLoading == [asset |-> 0, attempt |-> "none"]

\* constructor, up to the call of initialize(); then Game.switchScene
\* attaches the scene
WordsNew(variant, width, shell) ==
    [variant |-> variant,
     shell |-> shell,
     screenWidth |-> width,
     layoutWidth |-> 0,
     pc |-> "fetch",
     outcome |-> [kind |-> "pending", script |-> <<>>],
     fates |-> <<>>,
     loading |-> NotLoading,
     attempts |-> <<>>,
     loadedAssets |-> 0,
     dialogueData |-> [NoData EXCEPT !.null = TRUE],
     currentLineIndex |-> 0,
     dialogueText |-> <<>>,
     speakerName |-> <<>>,
     continueVisible |-> TRUE,
     restartVisible |-> FALSE,
     isAnimating |-> FALSE,
     currentCharIndex |-> 0,
     emojiSprites |-> EmptyMap,
     avatarSprites |-> {},
     currentAvatar |-> NoSprite,
     avatarSide |-> "none",
     isLoading |-> TRUE,
     children |-> IF variant = 1
                  THEN {UI("loadingText")}
                  ELSE {UI("loadingText"), UI("dialogueContainer")},
     containerChildren |-> <<>>,
     charSprites |-> <<>>,
     timers |-> {},
     reveals |-> <<>>,
     parent |-> TRUE,
     destroyed |-> FALSE]

maxLineWidth(w) ==
    IF w.screenWidth <= 768
    THEN (w.screenWidth * 95 * 9) \div 1000
    ELSE (w.screenWidth * 4 * 9) \div 100

\* the measured width of a PIXI.Text at 20px: ten units a character
TextWidth(sprite) == Len(sprite.text) * 10

\* an emoji sprite scaled to 1.2 times the text height of 20
EmojiSize == (20 * 12) \div 10

RECURSIVE Concat(_)
Concat(texts) ==
    IF texts = <<>> THEN <<>> ELSE Head(texts) \o Concat(Tail(texts))

\* addCharacter (variant 2); id names the new sprite
addCharacter(w, char, id) ==
    LET cs == w.charSprites
        n == Len(cs)
        charText == [kind |-> "char", text |-> <<char>>, x |-> 0, y |-> 0, id |-> id]
    IN IF n = 0
       THEN [w EXCEPT !.containerChildren = Append(@, charText),
                      !.charSprites = Append(@, charText)]
       ELSE
       LET lastChar == cs[n]
           x0 == lastChar.x + TextWidth(lastChar) + CHAR_SPACING
           overflow == x0 + TextWidth(charText) > maxLineWidth(w)
       IN IF ~overflow
          THEN LET placed == [charText EXCEPT !.x = x0, !.y = lastChar.y]
               IN [w EXCEPT !.containerChildren = Append(@, placed),
                            !.charSprites = Append(@, placed)]
          ELSE IF char = " "
          THEN LET placed == [charText EXCEPT !.y = lastChar.y + LINE_HEIGHT]
               IN [w EXCEPT !.containerChildren = Append(@, placed),
                            !.charSprites = Append(@, placed)]
          ELSE
          LET starts == {i \in 1..n : \A j \in (i + 1)..n : cs[j - 1].text # <<" ">>}
              wordStartIndex == CHOOSE i \in starts : \A j \in starts : i <= j
              wordChars == SubSeq(cs, wordStartIndex, n)
              wordSprite ==
                  [kind |-> "word",
                   text |-> Concat([i \in DOMAIN wordChars |-> wordChars[i].text]),
                   x |-> 0, y |-> lastChar.y + LINE_HEIGHT, id |-> id]
              placed == [charText EXCEPT !.x = TextWidth(wordSprite) + CHAR_SPACING,
                                         !.y = lastChar.y + LINE_HEIGHT]
              kept == SelectSeq(w.containerChildren,
                                LAMBDA c : c \notin Range(wordChars))
          IN [w EXCEPT
                !.containerChildren = Append(Append(kept, wordSprite), placed),
                !.charSprites =
                    Append(Append(SubSeq(cs, 1, wordStartIndex - 1), wordSprite),
                           placed)]

HasTexture(w, emojiName) ==
    \E i \in DOMAIN w.dialogueData.emojies :
        /\ w.dialogueData.emojies[i].name = emojiName
        /\ \A j \in 1..(i - 1) : w.dialogueData.emojies[j].name # emojiName
        /\ w.dialogueData.emojies[i].texture

\* addEmoji (variant 2)
addEmoji(w, emojiName, id) ==
    IF ~HasTexture(w, emojiName)
    THEN w
    ELSE LET cs == w.charSprites
             n == Len(cs)
             x0 == IF n = 0 THEN 0 ELSE cs[n].x + TextWidth(cs[n]) + EMOJI_SPACING
             wraps == n > 0 /\ x0 + EmojiSize > maxLineWidth(w)
             x == IF wraps THEN 0 ELSE x0
             y == IF n = 0 THEN 0
                  ELSE IF wraps THEN cs[n].y + LINE_HEIGHT ELSE cs[n].y
             sprite == [kind |-> "emoji", text |-> emojiName, x |-> x,
                        y |-> y + (LINE_HEIGHT - EmojiSize) \div 2, id |-> id]
         IN addCharacter(
                [w EXCEPT !.containerChildren = Append(@, sprite),
                          !.emojiSprites = MapSet(@, emojiName, sprite)],
                " ", id)

\* one run of the closure animate() of animateText; c is the closure
\* (its text, emojis and currentIndex), re-armed with setTimeout(animate, 10)
WordsAnimate(w, c) ==
    IF c.currentIndex < Len(c.text)
    THEN LET currentChar == c.text[c.currentIndex + 1]
             found == {i \in DOMAIN c.emojis : c.emojis[i].index = c.currentIndex}
             id == <<c.line, c.currentIndex>>
             shown ==
                 IF w.variant = 1
                 THEN LET typed == [w EXCEPT !.dialogueText = Append(@, currentChar)]
                      IN IF found # {}
                            /\ HasTexture(w, c.emojis[CHOOSE i \in found :
                                                \A j \in found : i <= j].name)
                         THEN LET name == c.emojis[CHOOSE i \in found :
                                              \A j \in found : i <= j].name
                                  sprite == [kind |-> "emoji", id |-> id]
                              IN [typed EXCEPT
                                    !.children = @ \cup {sprite},
                                    !.emojiSprites = MapSet(@, name, sprite)]
                         ELSE typed
                 ELSE IF found # {}
                      THEN addEmoji(w, c.emojis[CHOOSE i \in found :
                                          \A j \in found : i <= j].name, id)
                      ELSE addCharacter(w, currentChar, id)
         IN [shown EXCEPT !.timers =
                (@ \ {c}) \cup {[c EXCEPT !.currentIndex = @ + 1]}]
    ELSE [w EXCEPT !.isAnimating = FALSE,
                   !.continueVisible = TRUE,
                   !.timers = @ \ {c}]

clearDialogueContainer(w) ==
    [w EXCEPT !.containerChildren = <<>>,
              !.charSprites = <<>>,
              !.emojiSprites = EmptyMap]

\* animateText: the first run of animate() is synchronous
animateText(w, parsed) ==
    LET cleared == IF w.variant = 1
                   THEN [w EXCEPT !.dialogueText = <<>>]
                   ELSE clearDialogueContainer(w)
        logged == [cleared EXCEPT !.reveals = Append(@, w.currentLineIndex)]
    IN WordsAnimate(logged,
                    [line |-> w.currentLineIndex, text |-> parsed.text,
                     emojis |-> parsed.emojis, currentIndex |-> 0])

AvatarPosition(w, speaker) ==
    LET found == {i \in DOMAIN w.dialogueData.avatars :
                     w.dialogueData.avatars[i].name = speaker}
    IN IF found = {}
       THEN <<"l", "e", "f", "t">>
       ELSE w.dialogueData.avatars[CHOOSE i \in found : \A j \in found : i <= j].position

updateAvatar(w, speaker) ==
    LET removed == [w EXCEPT !.children = @ \ {w.currentAvatar},
                             !.currentAvatar = NoSprite,
                             !.avatarSide = "none"]
        sprite == [kind |-> "avatar", id |-> <<w.currentLineIndex>>]
    IN IF speaker \in w.avatarSprites
       THEN [removed EXCEPT
               !.children = @ \cup {sprite},
               !.currentAvatar = sprite,
               !.avatarSide =
                   IF w.variant = 1 THEN "center"
                   ELSE IF AvatarPosition(w, speaker) = <<"l", "e", "f", "t">>
                   THEN "left" ELSE "right"]
       ELSE removed
\* removal of the sprites the emojiSprites map holds, as nextLine,
\* restartDialogue and destroy do it
WithoutEmojiSprites(w) ==
    [w EXCEPT !.children = @ \ MapValues(w.emojiSprites),
              !.containerChildren =
                  SelectSeq(@, LAMBDA c : c \notin MapValues(w.emojiSprites)),
              !.emojiSprites = EmptyMap]

\* faulty variant: the end of the dialogue rewinds to the first line
WordsShowEndRewinds(w) ==
    [w EXCEPT !.dialogueText = EndOfDialogue,
              !.speakerName = <<>>,
              !.continueVisible = FALSE,
              !.restartVisible = TRUE,
              !.children = @ \ {w.currentAvatar},
              !.currentAvatar = NoSprite,
              !.avatarSide = "none",
              !.currentLineIndex = 0]

\* the end-of-dialogue branch of showCurrentLine and of nextLine
WordsShowEnd(w) ==
    [w EXCEPT !.dialogueText = EndOfDialogue,
              !.speakerName = <<>>,
              !.continueVisible = FALSE,
              !.restartVisible = TRUE,
              !.children = @ \ {w.currentAvatar},
              !.currentAvatar = NoSprite,
              !.avatarSide = "none"]

showCurrentLine(w) ==
    IF w.dialogueData.null \/ w.currentLineIndex >= Len(w.dialogueData.dialogue)
    THEN WordsShowEnd(w)
    ELSE LET currentLine == w.dialogueData.dialogue[w.currentLineIndex + 1]
             named == [w EXCEPT !.speakerName = currentLine.name,
                                !.continueVisible = FALSE,
                                !.restartVisible = FALSE,
                                !.isAnimating = TRUE,
                                !.currentCharIndex = 0]
         IN animateText(updateAvatar(named, currentLine.name),
                        parseTextWithEmojis(w.variant, currentLine.text))

\* faulty variant: the Continue button stays visible during the reveal
startNewLineKeepsContinue(w) ==
    IF w.dialogueData.null
    THEN w
    ELSE LET line == w.dialogueData.dialogue[w.currentLineIndex + 1]
             named == [w EXCEPT !.speakerName = line.name,
                                !.dialogueText = <<>>,
                                !.isAnimating = TRUE,
                                !.currentCharIndex = 0,
                                !.restartVisible = FALSE]
         IN animateText(updateAvatar(named, line.name),
                        parseTextWithEmojis(w.variant, line.text))

startNewLine(w) ==
    IF w.dialogueData.null
    THEN w
    ELSE LET line == w.dialogueData.dialogue[w.currentLineIndex + 1]
             named == [w EXCEPT !.speakerName = line.name,
                                !.dialogueText = <<>>,
                                !.isAnimating = TRUE,
                                !.currentCharIndex = 0,
                                !.continueVisible = FALSE,
                                !.restartVisible = FALSE]
         IN animateText(updateAvatar(named, line.name),
                        parseTextWithEmojis(w.variant, line.text))

\* faulty variant: nextLine advances by two lines
nextLineSkipsOne(w) ==
    LET advanced == [WithoutEmojiSprites(w) EXCEPT !.currentLineIndex = @ + 2]
    IN IF advanced.currentLineIndex < Len(w.dialogueData.dialogue)
       THEN startNewLine(advanced)
       ELSE WordsShowEnd(advanced)

nextLine(w) ==
    IF w.dialogueData.null
    THEN w
    ELSE LET advanced == [WithoutEmojiSprites(w) EXCEPT !.currentLineIndex = @ + 1]
         IN IF advanced.currentLineIndex < Len(w.dialogueData.dialogue)
            THEN startNewLine(advanced)
            ELSE WordsShowEnd(advanced)

restartDialogue(w) ==
    LET reset == [WithoutEmojiSprites(w) EXCEPT
                     !.currentLineIndex = 0,
                     !.isAnimating = FALSE,
                     !.currentCharIndex = 0,
                     !.restartVisible = FALSE,
                     !.continueVisible = FALSE,
                     !.reveals = <<>>]
    IN showCurrentLine(reset)

\* setupUI; with throws the call ends in a TypeError at
\* dialogueContainer.position (variant 2, line 813), which a destroyed
\* dialogueContainer (its transform is null) may raise
setupUI(w, throws) ==
    LET boxed == [w EXCEPT
                    !.children = @ \cup
                        (IF w.variant = 1
                         THEN {UI("box"), UI("speakerName"), UI("dialogueText"),
                               UI("continueButton"), UI("restartButton")}
                         ELSE {UI("box"), UI("speakerName"),
                               UI("continueButton"), UI("restartButton")}),
                    !.speakerName = <<>>,
                    !.layoutWidth = w.screenWidth,
                    !.dialogueText = IF w.variant = 1 THEN <<>> ELSE @,
                    !.continueVisible = FALSE]
    IN IF w.variant = 2 /\ ~throws
       THEN [boxed EXCEPT !.children = @ \cup {UI("dialogueContainer")}]
       ELSE boxed

\* the catch block of initialize()
WordsCatch(w) ==
    [w EXCEPT !.children = @ \cup {UI("errorText")},
              !.pc = "error",
              !.loading = NotLoading]

\* faulty variant: the dialogue UI is built before the error message is shown
WordsCatchAfterSetup(w) == WordsCatch(setupUI(w, FALSE))

WordsOnInvalid(w) == WordsCatch(w)

\* initialize() after "await this.preloadAssets()"
WordsFinishInitialize(w, throws) ==
    LET loaded == [w EXCEPT !.isLoading = FALSE,
                            !.children = @ \ {UI("loadingText")},
                            !.loading = NotLoading]
    IN IF throws
       THEN WordsCatch(setupUI(loaded, TRUE))
       ELSE showCurrentLine([setupUI(loaded, FALSE) EXCEPT !.pc = "ready"])

NumAssets(w) == Len(w.dialogueData.emojies) + Len(w.dialogueData.avatars)

\* preloadAssets: asset k (emojis first, then avatars) got its texture
AssetLoaded(w, k) ==
    LET ne == Len(w.dialogueData.emojies)
    IN IF k <= ne
       THEN [w EXCEPT !.dialogueData.emojies[k].texture = TRUE,
                      !.loadedAssets = @ + 1]
       ELSE [w EXCEPT !.dialogueData.avatars[k - ne].texture = TRUE,
                      !.avatarSprites = @ \cup {w.dialogueData.avatars[k - ne].name},
                      !.loadedAssets = @ + 1]

\* preloadAssets from asset k on, up to the next await: a texture that is
\* already valid is taken without one
RECURSIVE WordsPreloadFrom(_, _, _)
WordsPreloadFrom(w, k, throws) ==
    IF k > NumAssets(w)
    THEN WordsFinishInitialize(w, throws)
    ELSE IF w.fates[k] = "cached"
    THEN WordsPreloadFrom(AssetLoaded(w, k), k + 1, throws)
    ELSE [w EXCEPT !.loading = [asset |-> k, attempt |-> "first"],
                   !.attempts[k] = Append(@, 0)]

\* initialize() from the settled fetch to the first await of preloadAssets
WordsOnFetch(w, outcome, fates, throws) ==
    LET got == [w EXCEPT !.outcome = outcome]
    IN IF outcome.kind \in {"rejected", "httpError"}
       THEN WordsCatch(got)
       ELSE IF ~Accepts(w.variant, Payload(outcome))
       THEN WordsOnInvalid(got)
       ELSE WordsPreloadFrom(
                [got EXCEPT !.dialogueData = AsDialogueData(Payload(outcome)),
                            !.pc = "preload",
                            !.fates = fates,
                            !.attempts = [k \in DOMAIN fates |-> <<>>]],
                1, throws)

\* faulty variant: a failed retry waits and tries again
WordsOnAssetSettledRetriesAgain(w, throws) ==
    LET k == w.loading.asset
        fate == w.fates[k]
    IN IF fate = "ok" \/ (fate = "retryOk" /\ w.loading.attempt = "retry")
       THEN WordsPreloadFrom(AssetLoaded(w, k), k + 1, throws)
       ELSE [w EXCEPT !.loading.attempt = "delay"]

\* a Texture.fromURL promise settles; attempts[k] lists, for each call of
\* Texture.fromURL for asset k, the delay that preceded it
WordsOnAssetSettled(w, throws) ==
    LET k == w.loading.asset
        fate == w.fates[k]
    IN IF w.loading.attempt = "first"
       THEN IF fate = "ok"
            THEN WordsPreloadFrom(AssetLoaded(w, k), k + 1, throws)
            ELSE [w EXCEPT !.loading.attempt = "delay"]
       ELSE IF fate = "retryOk"
            THEN WordsPreloadFrom(AssetLoaded(w, k), k + 1, throws)
            ELSE WordsPreloadFrom(w, k + 1, throws)

\* destroy(): the sprites of both maps are removed and destroyed, then
\* Container.destroy with children: true; no timer is cleared
WordsDestroyed(w) ==
    [WithoutEmojiSprites(w) EXCEPT
        !.avatarSprites = {},
        !.children = {},
        !.containerChildren = <<>>,
        !.parent = FALSE,
        !.destroyed = TRUE]

\* faulty variant: the relayout starts the dialogue over
handleResizeRewinds(w) ==
    [w EXCEPT !.layoutWidth = w.screenWidth,
              !.avatarSide = IF w.currentAvatar # NoSprite THEN "left" ELSE @,
              !.currentLineIndex = 0]

\* handleResize (later version of the class only): the dialogue box, the
\* container, the speaker name and the buttons are laid out for the
\* current screen; the avatar is put at the left offset, since the test
\* "anchor.x === 0.5" holds for every avatar sprite
handleResize(w) ==
    [w EXCEPT !.layoutWidth = w.screenWidth,
              !.avatarSide = IF w.currentAvatar # NoSprite THEN "left" ELSE @]

\* whether a PIXI error may be raised by a late completion on a destroyed
\* scene
MayThrow(w) == IF w.destroyed /\ w.variant = 2 THEN BOOLEAN ELSE {FALSE}

Clickable(w, button) == w.parent /\ UI(button) \in w.children

WordsFetchSettles ==
    /\ words.pc = "fetch"
    /\ \E outcome \in Outcomes, throws \in MayThrow(words) :
          IF /\ outcome.kind \notin {"rejected", "httpError"}
             /\ Accepts(words.variant, Payload(outcome))
          THEN \E fates \in [1..Len(Payload(outcome).o.emojies.a)
                                      + Len(Payload(outcome).o.avatars.a) -> Fates] :
                  words' = WordsOnFetch(words, outcome, fates, throws)
          ELSE words' = WordsOnFetch(words, outcome, <<>>, throws)
    /\ UNCHANGED <<now, ace, flame, game>>

WordsAssetSettles ==
    /\ words.pc = "preload"
    /\ words.loading.attempt \in {"first", "retry"}
    /\ \E throws \in MayThrow(words) : words' = WordsOnAssetSettled(words, throws)
    /\ UNCHANGED <<now, ace, flame, game>>

\* the setTimeout(resolve, 1000) before the retry fires, and
\* Texture.fromURL is called again
WordsRetryTimer ==
    /\ words.pc = "preload"
    /\ words.loading.attempt = "delay"
    /\ words' = [words EXCEPT
                    !.loading.attempt = "retry",
                    !.attempts[words.loading.asset] = Append(@, RETRY_DELAY)]
    /\ UNCHANGED <<now, ace, flame, game>>

\* faulty variant: the timer fires and animate() is not run
WordsRevealTimerDropsTick ==
    /\ \E c \in words.timers : words' = [words EXCEPT !.timers = @ \ {c}]
    /\ UNCHANGED <<now, ace, flame, game>>

\* a setTimeout(animate, 10) fires; on a destroyed scene the callback may
\* end in a TypeError (a destroyed sprite has no position)
WordsRevealTimer ==
    /\ \E c \in words.timers, throws \in MayThrow(words) :
          words' = IF throws
                   THEN [words EXCEPT !.timers = @ \ {c}]
                   ELSE WordsAnimate(words, c)
    /\ UNCHANGED <<now, ace, flame, game>>

\* the window is resized: main.ts resizes the renderer, then the resize
\* handler of Game runs; the Game of part_000 (shell 0) calls the
\* handleResize of the current scene when it has one
WordsResize ==
    /\ \E width \in ScreenWidths \ {words.screenWidth} :
          words' = IF words.shell = 0 /\ words.variant = 2 /\ words.parent
                   THEN handleResize([words EXCEPT !.screenWidth = width])
                   ELSE [words EXCEPT !.screenWidth = width]
    /\ UNCHANGED <<now, ace, flame, game>>

WordsContinueClick ==
    /\ Clickable(words, "continueButton")
    /\ words.continueVisible
    /\ words' = nextLine(words)
    /\ UNCHANGED <<now, ace, flame, game>>

WordsRestartClick ==
    /\ Clickable(words, "restartButton")
    /\ words.restartVisible
    /\ words' = restartDialogue(words)
    /\ UNCHANGED <<now, ace, flame, game>>

WordsTeardown ==
    /\ ~words.destroyed
    /\ words' = WordsDestroyed(words)
    /\ UNCHANGED <<now, ace, flame, game>>

InitWords ==
    /\ now = 0
    /\ ace = 0
    /\ flame = 0
    /\ \E variant \in Variants, width \in ScreenWidths, shell \in ShellVersions :
          words = WordsNew(variant, width, shell)
    /\ game = 0

NextWords ==
    \/ WordsFetchSettles
    \/ WordsAssetSettles
    \/ WordsRetryTimer
    \/ WordsRevealTimer
    \/ WordsResize
    \/ WordsContinueClick
    \/ WordsRestartClick
    \/ WordsTeardown

SpecWords == InitWords /\ [][NextWords]_vars

\* the same scene under a running event loop: a pending setTimeout fires
SpecWordsLive == InitWords /\ [][NextWords]_vars /\ WF_vars(WordsRevealTimer)

\* ------------------------------------------------------------------------
NumLines == Len(words.dialogueData.dialogue)

\* C3: with a loaded script of N lines the playback position stays within
\* 0..N, and no step other than a Restart click lowers it.
PlaybackPositionMonotone ==
    /\ [](words.currentLineIndex \in 0..NumLines)
    /\ [][WordsRestartClick
          \/ words'.currentLineIndex >= words.currentLineIndex]_vars

\* C3 witness: the end of a two-line script, the position at N
PlaybackAtEndWitness ==
    /\ NumLines = 2
    /\ words.currentLineIndex = 2
    /\ words.restartVisible

\* C4: in a playthrough the reveal sequences started so far are those of
\* the lines 0, 1, ... up to the current one, each exactly once and in
\* script order; at the end of the dialogue these are the N lines.
RevealsFollowScript ==
    words.pc = "ready"
        => words.reveals =
             [i \in 1..Min(words.currentLineIndex + 1, NumLines) |-> i - 1]

\* C4 witness: the end of a two-line script after its two reveals
RevealsAtEndWitness ==
    /\ words.pc = "ready"
    /\ NumLines = 2
    /\ words.currentLineIndex = NumLines
    /\ words.reveals = <<0, 1>>
    /\ ~words.destroyed

\* C5 (as claimed): a Restart click leaves no emoji sprite displayed,
\* neither as a child of the scene nor of the dialogue container.
RestartLeavesNoEmoji ==
    [][WordsRestartClick
          => /\ words'.currentLineIndex = 0
             /\ {c \in words'.children : c.kind = "emoji"} = {}
             /\ {c \in Range(words'.containerChildren) : c.kind = "emoji"} = {}]_vars

\* C6: once the fetch delivered a malformed payload the scene is in its
\* error state: the error message is a child of the scene (until the
\* scene is torn down) and no part of the dialogue UI was attached, no
\* avatar, no revealed text, no reveal timer.
MalformedPayloadShowsOnlyError ==
    words.outcome.kind \in MalformedKinds
        => /\ words.pc = "error"
           /\ ~words.destroyed => UI("errorText") \in words.children
           /\ words.children \cap DialogueUI = {}
           /\ words.currentAvatar = NoSprite
           /\ words.containerChildren = <<>>
           /\ words.dialogueText = <<>>
           /\ words.timers = {}
           /\ words.reveals = <<>>

\* C6 witness: the error state after a payload whose dialogue is no array
MalformedPayloadWitness ==
    /\ words.outcome.kind = "dialogueNotArray"
    /\ ~words.destroyed
    /\ UI("errorText") \in words.children

\* C7 (as claimed): once the scene is torn down none of its timers fires
\* again (every pending timer was cancelled by the teardown).
NoTimerAfterTeardown ==
    [][words.destroyed => words'.timers = words.timers]_vars

\* C8 (as claimed): a fetch or asset load that settles after the teardown
\* changes no child of the scene and starts no reveal.
LateCompletionDiscarded ==
    [][(words.destroyed /\ (WordsFetchSettles \/ WordsAssetSettles))
          => /\ words'.children = words.children
             /\ words'.timers = words.timers
             /\ words'.reveals = words.reveals]_vars

\* ------------------------------------------------------------------------
\* preloadAssets has run to its end
PreloadDone == words.outcome.kind \in ValidKinds /\ words.pc \in {"ready", "error"}

\* C11: every asset is requested at most twice: a first request without
\* delay and, only after that one failed, one retry 1000 ms later; once
\* preloadAssets is through, a failed first request has had exactly one
\* retry, a successful one none, and a texture found valid no request.
AtMostOneRetry ==
    \A k \in DOMAIN words.attempts :
        /\ words.attempts[k] \in {<<>>, <<0>>, <<0, RETRY_DELAY>>}
        /\ words.fates[k] = "cached" => words.attempts[k] = <<>>
        /\ words.fates[k] = "ok" => Len(words.attempts[k]) <= 1
        /\ PreloadDone =>
              words.attempts[k] =
                 CASE words.fates[k] = "cached" -> <<>>
                   [] words.fates[k] = "ok" -> <<0>>
                   [] OTHER -> <<0, RETRY_DELAY>>

\* C11 witness: the dialogue is ready after one asset failed twice and
\* the other loaded at the first request
TwoAttemptsWitness ==
    /\ PreloadDone
    /\ words.pc = "ready"
    /\ \E k \in DOMAIN words.attempts :
          words.fates[k] = "fail" /\ words.attempts[k] = <<0, RETRY_DELAY>>
    /\ \E k \in DOMAIN words.attempts :
          words.fates[k] = "ok" /\ words.attempts[k] = <<0>>

\* C12 (as claimed): once an asset has failed at its first request and at
\* its retry, the scene shows the error message and no dialogue UI.
DoubleFailureShowsError ==
    (/\ PreloadDone
     /\ ~words.destroyed
     /\ \E k \in DOMAIN words.attempts :
           words.fates[k] = "fail" /\ Len(words.attempts[k]) = 2)
        => /\ UI("errorText") \in words.children
           /\ words.children \cap DialogueUI = {}

\* ------------------------------------------------------------------------
\* an object whose members named in keys are strings
ObjectWithStrings(v, keys) ==
    v.t = "object" /\ \A k \in keys : HasKey(v, k) /\ v.o[k].t = "string"

\* the shape the remote payload is documented to have
WellShaped(data) ==
    /\ data.t = "object"
    /\ \A k \in {"dialogue", "emojies", "avatars"} :
          HasKey(data, k) /\ data.o[k].t = "array"
    /\ \A i \in DOMAIN data.o.dialogue.a :
          ObjectWithStrings(data.o.dialogue.a[i], {"name", "text"})
    /\ \A i \in DOMAIN data.o.emojies.a :
          ObjectWithStrings(data.o.emojies.a[i], {"name", "url"})
    /\ \A i \in DOMAIN data.o.avatars.a :
          /\ ObjectWithStrings(data.o.avatars.a[i], {"name", "url", "position"})
          /\ data.o.avatars.a[i].o.position.s
                \in {<<"l", "e", "f", "t">>, <<"r", "i", "g", "h", "t">>}

\* C13: a delivered payload is taken as the dialogue data exactly when it
\* has the documented shape; any other payload leaves the scene without
\* dialogue data and in its error state, showing the error message.
ValidationExact ==
    words.outcome.kind \in ValidKinds \cup MalformedKinds
        => /\ ~words.dialogueData.null <=> WellShaped(Payload(words.outcome))
           /\ ~WellShaped(Payload(words.outcome))
                 => /\ words.pc = "error"
                    /\ ~words.destroyed => UI("errorText") \in words.children

\* C13 witness: the earlier version of the class was handed an emoji list
\* with a null entry and shows the error message
ValidationRejectsWitness ==
    /\ words.variant = 1
    /\ words.outcome.kind = "emojiNull"
    /\ words.dialogueData.null
    /\ UI("errorText") \in words.children

\* ------------------------------------------------------------------------
\* C14: a Continue click moves the playback position forward by exactly
\* one line, and a reveal-timer tick, a resize, a settled fetch or asset
\* load and an elapsed retry delay leave it where it is.
OnlyContinueAdvances ==
    [][/\ WordsContinueClick
            => words'.currentLineIndex = words.currentLineIndex + 1
       /\ (\/ WordsRevealTimer
           \/ WordsResize
           \/ WordsFetchSettles
           \/ WordsAssetSettles
           \/ WordsRetryTimer)
            => words'.currentLineIndex = words.currentLineIndex]_vars

\* C14 witness: the second line, reached by a Continue click, is being
\* revealed in a scene that was laid out again after a resize
ContinuedWitness ==
    /\ words.pc = "ready"
    /\ words.currentLineIndex = 1
    /\ words.reveals = <<0, 1>>
    /\ words.timers # {}
    /\ words.variant = 2
    /\ words.layoutWidth = 400
    /\ words.screenWidth = 400

\* C30: the Continue and the Restart button are never visible together,
\* neither is visible while a reveal is in progress, and at most one
\* chain of reveal timers is pending.
ButtonsExclusive ==
    /\ ~(words.continueVisible /\ words.restartVisible)
    /\ words.isAnimating => (~words.continueVisible /\ ~words.restartVisible)
    /\ Cardinality(words.timers) <= 1

\* C30 witness: the second line of a script is being revealed, a timer
\* pending and both buttons hidden
SecondRevealRunningWitness ==
    /\ ~words.destroyed
    /\ words.isAnimating
    /\ words.currentLineIndex = 1
    /\ Cardinality(words.timers) = 1
    /\ ~words.continueVisible
    /\ ~words.restartVisible

\* C31: on a living scene every timer tick of a reveal performs one
\* reveal step, the tick that finds all L units revealed ends the reveal
\* (isAnimating false, Continue visible), and every reveal in progress
\* comes to that end, whether the emoji assets were loaded or not.
RevealTerminates ==
    /\ [][(WordsRevealTimer /\ ~words.destroyed)
            => LET c == CHOOSE t \in words.timers : TRUE
               IN IF c.currentIndex < Len(c.text)
                  THEN /\ words'.timers = {[c EXCEPT !.currentIndex = @ + 1]}
                       /\ words'.isAnimating
                  ELSE /\ c.currentIndex = Len(c.text)
                       /\ words'.timers = {}
                       /\ ~words'.isAnimating
                       /\ words'.continueVisible]_vars
    /\ []((words.isAnimating /\ ~words.destroyed) => Cardinality(words.timers) = 1)
    /\ (words.isAnimating /\ ~words.destroyed)
          ~> ((~words.isAnimating /\ words.continueVisible) \/ words.destroyed)

\* C31 witness: the reveal of the line with two emoji tokens has ended
\* although the emoji asset was never loaded
RevealEndedWithoutEmojiWitness ==
    /\ ~words.destroyed
    /\ words.variant = 2
    /\ words.pc = "ready"
    /\ ~words.isAnimating
    /\ words.continueVisible
    /\ words.timers = {}
    /\ words.reveals # <<>>
    /\ words.currentLineIndex < Len(words.dialogueData.dialogue)
    /\ words.dialogueData.dialogue[words.currentLineIndex + 1].text = LineTexts[2]
    /\ ~HasTexture(words, EmojiName)

\* the scene displays the end of the dialogue: the message is on screen,
\* no glyph, emoji or avatar is, and Restart is the one button shown
EndStateShown ==
    /\ UI("dialogueText") \in words.children
    /\ words.dialogueText = EndOfDialogue
    /\ words.containerChildren = <<>>
    /\ \A c \in words.children : c.kind \notin {"emoji", "avatar"}
    /\ words.currentAvatar = NoSprite
    /\ ~words.continueVisible
    /\ words.restartVisible

\* C34 (as claimed): Continue pressed on the last line leaves the scene
\* displaying the end of the dialogue.
ContinueOnLastLineShowsEnd ==
    [][(WordsContinueClick /\ words.currentLineIndex + 1 >= NumLines)
          => EndStateShown']_vars

\* C35 (as claimed): a resize that runs handleResize while an avatar is
\* shown leaves the avatar on the side it was placed on, the side its
\* position in the script names.
ResizeKeepsAvatarSide ==
    [][(WordsResize /\ words.shell = 0 /\ words.variant = 2 /\ words.parent
          /\ words.currentAvatar # NoSprite)
          => words'.avatarSide = words.avatarSide]_vars

\* C36 (as claimed): once the error message is shown the loading text is
\* no longer displayed.
ErrorReplacesLoading ==
    UI("errorText") \in words.children => UI("loadingText") \notin words.children

\* ------------------------------------------------------------------------
\* The reveal of one line on its own: a script of one line whose text is
\* made of at most MaxUnits units (a letter, a space, an emoji token), on
\* a screen narrow enough for the line to wrap, with the emoji asset
\* loaded or not.  The scene is the later version (one sprite a glyph).
\* ------------------------------------------------------------------------
MaxUnits == 4

RevealUnits == {<<"a">>, <<" ">>, <<"{", "e", "}">>}

RevealTexts ==
    {Concat(units) : units \in UNION {[1..n -> RevealUnits] : n \in 0..MaxUnits}}

\* 40 wide: maxLineWidth is 34, three glyphs of width 10 fill a row
RevealWidths == {40, 1000}

RevealData(text, loaded) ==
    [dialogue |-> << [name |-> SpeakerName, text |-> text] >>,
     emojies |-> << [name |-> EmojiName, texture |-> loaded] >>,
     avatars |-> <<>>,
     null |-> FALSE]

InitReveal ==
    /\ now = 0
    /\ ace = 0
    /\ flame = 0
    /\ \E text \in RevealTexts, width \in RevealWidths, loaded \in BOOLEAN :
          words = WordsFinishInitialize(
                      [WordsNew(2, width, 0) EXCEPT
                          !.dialogueData = RevealData(text, loaded)],
                      FALSE)
    /\ game = 0

\* a setTimeout(animate, 10) of the reveal fires
RevealTick ==
    /\ \E c \in words.timers : words' = WordsAnimate(words, c)
    /\ UNCHANGED <<now, ace, flame, game>>

NextReveal == RevealTick

SpecReveal == InitReveal /\ [][NextReveal]_vars

GlyphText == Concat([i \in DOMAIN words.charSprites |-> words.charSprites[i].text])

\* C32 (as claimed): after k reveal steps the texts of the glyph entries,
\* put together in order, are the first k characters of the parsed text.
GlyphsSpellPrefix ==
    \A c \in words.timers : GlyphText = SubSeq(c.text, 1, c.currentIndex)

\* with the emoji asset loaded the glyph entries do spell the revealed
\* prefix at every step, whatever was re-flowed on the way
GlyphsSpellPrefixWhenLoaded ==
    HasTexture(words, EmojiName) => GlyphsSpellPrefix

\* ------------------------------------------------------------------------
\* parseTextWithEmojis on its own: every text of at most MaxText
\* characters over ParseAlphabet, parsed by either version of the scene.
\* ------------------------------------------------------------------------
MaxText == 6

ParseAlphabet == {"a", " ", "{", "}"}

ParseTexts == UNION {[1..n -> ParseAlphabet] : n \in 0..MaxText}

InitParse ==
    /\ now = 0
    /\ ace = 0
    /\ flame = 0
    /\ \E variant \in Variants, text \in ParseTexts :
          words = [variant |-> variant, text |-> text, done |-> FALSE,
                   result |-> [text |-> <<>>, emojis |-> <<>>]]
    /\ game = 0

\* const { text, emojis } = this.parseTextWithEmojis(currentLine.text)
ParseCall ==
    /\ ~words.done
    /\ words' = [words EXCEPT
                    !.done = TRUE,
                    !.result = parseTextWithEmojis(words.variant, words.text)]
    /\ UNCHANGED <<now, ace, flame, game>>

NextParse == ParseCall

SpecParse == InitParse /\ [][NextParse]_vars

\* the runs of the entries, each width long and starting offset characters
\* before its entry's index, lie inside the parsed text one after the other
RunsInOrder(parsed, emojis, width, offset) ==
    \A i \in DOMAIN emojis :
        LET start == emojis[i].index + 1 - offset
            from == IF i = 1 THEN 1 ELSE emojis[i - 1].index + 1 - offset + width
        IN /\ from <= start
           /\ start + width - 1 <= Len(parsed)
           /\ \A k \in start..(start + width - 1) : parsed[k] = " "

\* the parsed text from position from on, with the run of every entry put
\* back as {name}
RECURSIVE Unparse(_, _, _, _, _)
Unparse(parsed, emojis, width, offset, from) ==
    IF emojis = <<>>
    THEN SubSeq(parsed, from, Len(parsed))
    ELSE LET start == Head(emojis).index + 1 - offset
         IN SubSeq(parsed, from, start - 1)
              \o <<"{">> \o Head(emojis).name \o <<"}">>
              \o Unparse(parsed, Tail(emojis), width, offset, start + width)

\* the pieces of the parsed text outside the runs hold no token
NoTokenLeft(parsed, emojis, width, offset) ==
    \A i \in 1..(Len(emojis) + 1) :
        LET from == IF i = 1 THEN 1 ELSE emojis[i - 1].index + 1 - offset + width
            to == IF i = Len(emojis) + 1 THEN Len(parsed)
                  ELSE emojis[i].index - offset
            piece == SubSeq(parsed, from, to)
        IN \A k \in DOMAIN piece :
              ~(/\ piece[k] = "{"
                /\ k + 1 <= Len(piece)
                /\ piece[k + 1] # "}"
                /\ \E j \in (k + 2)..Len(piece) : piece[j] = "}")

\* C33: the parsed text is the text with every {name} token replaced by
\* a run of spaces of one fixed width; the entries list the tokens in
\* order, each with its name and an index inside its run, the indices
\* strictly increasing; the text outside the tokens is unchanged; a text
\* with no token comes back unchanged with no entries.
ParseReplacesTokens ==
    words.done =>
      LET parsed == words.result.text
          emojis == words.result.emojis
      IN /\ \A i \in DOMAIN emojis :
               /\ emojis[i].name # <<>>
               /\ \A k \in DOMAIN emojis[i].name : emojis[i].name[k] # "}"
         /\ \A i \in DOMAIN emojis : \A j \in DOMAIN emojis :
               i < j => emojis[i].index < emojis[j].index
         /\ \E width \in 1..6 : \E offset \in 0..(width - 1) :
               /\ RunsInOrder(parsed, emojis, width, offset)
               /\ Unparse(parsed, emojis, width, offset, 1) = words.text
               /\ NoTokenLeft(parsed, emojis, width, offset)
         /\ (\A k \in DOMAIN words.text : words.text[k] # "{")
               => (parsed = words.text /\ emojis = <<>>)

\* C33 witness: a text of two tokens, parsed by the later version into
\* two runs of two spaces
ParsedTwoTokensWitness ==
    /\ words.done
    /\ words.variant = 2
    /\ Len(words.result.emojis) = 2
    /\ words.result.text = <<" ", " ", " ", " ">>
    /\ words.result.emojis[2].index = 3

\* ========================================================================
\* Game (navigation shell)
\*
\* Two versions of Game.ts are in the source: part_000 (game.variant = 0:
\* a title, startScene of any name) and part_001 (game.variant = 1: no
\* title, startScene returns early on an unknown name).
\* ========================================================================
SceneNames == {"ace-of-shadows", "magic-words", "phoenix-flame"}

\* the names startScene may be called with
RequestedNames == SceneNames \cup {"unknown"}

\* where the construction of the new scene may throw
Failures == {"none", "create", "attach"}

NoScene == 0

Child(kind, id) == [kind |-> kind, id |-> id]

MenuChild == Child("menu", 0)

UiLayer == Child("uiLayer", 0)

\* the source holds each scene class twice; of the classes loaded
\* together, version 1 is AceOfShadowsScene.ts with the earlier
\* MagicWordsScene, version 2 is the AceOfShadowsScene of Scene.ts with the
\* later MagicWordsScene.  Only the latter two have a handleResize method;
\* neither copy of PhoenixFlameScene has one.
SceneClasses == {1, 2}

HasHandleResize(sceneName, classes) ==
    classes = 2 /\ sceneName \in {"ace-of-shadows", "magic-words"}

\* constructor, then initialize() (showMenu with no scene); the overlay
\* and the menu are laid out for the width of the screen at that time
GameNew(variant, width, classes) ==
    [variant |-> variant,
     classes |-> classes,
     screenWidth |-> width,
     overlayWidth |-> width,
     menuWidth |-> width,
     sceneWidth |-> 0,
     currentScene |-> NoScene,
     stage |-> <<MenuChild, UiLayer>>,
     menuVisible |-> TRUE,
     backVisible |-> FALSE,
     titleVisible |-> TRUE,
     kinds |-> <<>>,
     destroys |-> <<>>,
     loads |-> <<>>,
     ticker |-> {},
     updated |-> {},
     errorLogged |-> FALSE]

Without(stage, child) == SelectSeq(stage, LAMBDA c : c # child)

\* faulty variant: the overlay layer is moved below everything else
UiLayerAtBottom(stage) == <<UiLayer>> \o Without(stage, UiLayer)

\* stage.setChildIndex(uiLayer, stage.children.length - 1)
UiLayerOnTop(stage) == Append(Without(stage, UiLayer), UiLayer)

SceneChild(g, id) == Child(g.kinds[id], id)

\* "if (this.currentScene) { removeChild; destroy({children: true}) }":
\* the scene's destroy() removes its ticker callback.  A second destroy()
\* of a scene finds nothing left to remove and returns.
DestroyCurrent(g) ==
    IF g.currentScene = NoScene
    THEN g
    ELSE [g EXCEPT !.stage = Without(@, SceneChild(g, g.currentScene)),
                   !.destroys[g.currentScene] = @ + 1,
                   !.ticker = @ \ {g.currentScene}]

\* faulty variant: showMenu keeps its reference to the destroyed scene
showMenuKeepsScene(g) ==
    [DestroyCurrent(g) EXCEPT
        !.menuVisible = TRUE,
        !.backVisible = FALSE,
        !.titleVisible = IF g.variant = 0 THEN TRUE ELSE @,
        !.stage = UiLayerOnTop(@)]

\* faulty variant: showMenu leaves the back button visible
showMenuLeavesBackButton(g) ==
    [DestroyCurrent(g) EXCEPT
        !.currentScene = NoScene,
        !.menuVisible = TRUE,
        !.titleVisible = IF g.variant = 0 THEN TRUE ELSE @,
        !.stage = UiLayerOnTop(@)]

showMenu(g) ==
    [DestroyCurrent(g) EXCEPT
        !.currentScene = NoScene,
        !.menuVisible = TRUE,
        !.backVisible = FALSE,
        !.titleVisible = IF g.variant = 0 THEN TRUE ELSE @,
        !.stage = UiLayerOnTop(@)]

\* faulty variant: the catch block logs the error and returns
switchSceneCatchOnlyLogs(g) == [g EXCEPT !.errorLogged = TRUE]

\* the catch block of switchScene
switchSceneCatch(g) == showMenu([g EXCEPT !.errorLogged = TRUE])

\* the scenes that register a ticker callback in their constructor
RegistersTicker(sceneName) == sceneName \in {"ace-of-shadows", "phoenix-flame"}

switchScene(g, sceneName, failure) ==
    LET cleaned == DestroyCurrent(g)
        id == Len(g.kinds) + 1
        created == [cleaned EXCEPT
                      !.kinds = Append(@, sceneName),
                      !.destroys = Append(@, 0),
                      !.loads = Append(@, IF sceneName = "magic-words"
                                          THEN "loading" ELSE "running"),
                      !.ticker = IF RegistersTicker(sceneName) THEN @ \cup {id} ELSE @,
                      !.sceneWidth = g.screenWidth,
                      !.currentScene = id]
    IN IF sceneName \notin SceneNames \/ failure = "create"
       THEN switchSceneCatch(cleaned)
       ELSE IF failure = "attach"
       THEN switchSceneCatch(created)
       ELSE [created EXCEPT
               !.stage = UiLayerOnTop(Append(@, Child(sceneName, id))),
               !.menuVisible = FALSE,
               !.backVisible = TRUE,
               !.titleVisible = IF g.variant = 0 THEN FALSE ELSE @]

startScene(g, sceneName, failure) ==
    IF g.variant = 1 /\ sceneName \notin SceneNames
    THEN g
    ELSE switchScene(g, sceneName, failure)

\* Game.handleResize, after main.ts resized the renderer to width: the
\* frame-rate text, the back button, the title (part_000) and the menu
\* are laid out; part_000 then calls the handleResize of the current
\* scene if the scene has such a method, part_001 does not
GameHandleResize(g, width) ==
    LET shell == [g EXCEPT !.screenWidth = width,
                           !.overlayWidth = width,
                           !.menuWidth = width]
    IN IF /\ g.variant = 0
          /\ g.currentScene # NoScene
          /\ HasHandleResize(g.kinds[g.currentScene], g.classes)
       THEN [shell EXCEPT !.sceneWidth = width]
       ELSE shell

\* initialize() of a MagicWordsScene comes to its end: the dialogue is
\* shown, or the catch block has added the error message to the scene.
\* The scene holds no reference to Game and calls nothing of it.
GameDialogueSettles ==
    /\ \E id \in DOMAIN game.kinds, outcome \in {"ready", "error"} :
          /\ game.kinds[id] = "magic-words"
          /\ game.loads[id] = "loading"
          /\ game' = [game EXCEPT !.loads[id] = outcome]
    /\ UNCHANGED <<now, ace, flame, words>>

\* one display frame: the ticker runs the callbacks added to it, the
\* frame-rate text of Game and the tickerCallback of every scene that
\* registered one; updated is the set of scenes whose update() ran
GameFrame ==
    /\ game' = [game EXCEPT !.updated = game.ticker]
    /\ UNCHANGED <<now, ace, flame, words>>

\* the window is resized
GameResize ==
    /\ \E width \in ScreenWidths \ {game.screenWidth} :
          game' = GameHandleResize(game, width)
    /\ UNCHANGED <<now, ace, flame, words>>

\* a call of startScene (a menu button, or any caller of the public method)
GameStartScene(sceneName, failure) ==
    /\ Len(game.kinds) < MaxScenes
    /\ game' = startScene(game, sceneName, failure)
    /\ UNCHANGED <<now, ace, flame, words>>

\* a call of showMenu (the Back button, or any caller)
GameShowMenu ==
    /\ game' = showMenu(game)
    /\ UNCHANGED <<now, ace, flame, words>>

InitGame ==
    /\ now = 0
    /\ ace = 0
    /\ flame = 0
    /\ words = 0
    /\ \E variant \in ShellVersions, width \in ScreenWidths, classes \in SceneClasses :
          game = GameNew(variant, width, classes)

NextGame ==
    \/ \E sceneName \in RequestedNames, failure \in Failures :
          GameStartScene(sceneName, failure)
    \/ GameShowMenu
    \/ GameResize
    \/ GameDialogueSettles
    \/ GameFrame

SpecGame == InitGame /\ [][NextGame]_vars

\* ------------------------------------------------------------------------
ScenesOnStage == {c \in Range(game.stage) : c.kind \in SceneNames}

SceneActive == game.currentScene # NoScene

MenuState ==
    /\ game.currentScene = NoScene
    /\ game.menuVisible
    /\ ~game.backVisible

\* C9: after every completed startScene or showMenu call the stage holds
\* no scene but the current one, which is not destroyed; and a scene is
\* active iff the menu is hidden, iff the back button is visible, iff (in
\* the version with a title) the title is hidden.
ShellHoldsOneScene ==
    /\ ScenesOnStage =
         IF SceneActive THEN {SceneChild(game, game.currentScene)} ELSE {}
    /\ Cardinality(ScenesOnStage) <= 1
    /\ SceneActive => game.destroys[game.currentScene] = 0
    /\ SceneActive <=> ~game.menuVisible
    /\ SceneActive <=> game.backVisible
    /\ game.variant = 0 => (SceneActive <=> ~game.titleVisible)

\* C9 witness: a scene is active after a switch that destroyed another
ShellSwitchedWitness ==
    /\ SceneActive
    /\ \E i \in DOMAIN game.destroys : game.destroys[i] = 1
    /\ ~game.menuVisible

\* C10: a startScene whose scene construction or attachment throws ends
\* in the menu state: no current scene, menu visible, back button hidden.
FailedSwitchEndsInMenu ==
    [][(\E sceneName \in SceneNames :
           \/ GameStartScene(sceneName, "create")
           \/ GameStartScene(sceneName, "attach"))
          => MenuState']_vars

\* C10 witness: the menu state after a switch that failed once the
\* previous scene had been destroyed
FailedSwitchWitness ==
    /\ game.errorLogged
    /\ MenuState
    /\ \E i \in DOMAIN game.destroys : game.destroys[i] >= 1

\* C18: after every completed startScene or showMenu call the overlay
\* layer is the last child of the stage, once, above the menu and above
\* the active scene if there is one.
OverlayOnTop ==
    /\ Last(game.stage) = UiLayer
    /\ Cardinality({i \in DOMAIN game.stage : game.stage[i] = UiLayer}) = 1
    /\ \E i \in DOMAIN game.stage : game.stage[i] = MenuChild
    /\ SceneActive =>
          \E i \in 1..(Len(game.stage) - 1) :
              game.stage[i] = SceneChild(game, game.currentScene)

\* C18 witness: the second scene started is on the stage, between the
\* menu and the overlay layer
OverlayAboveSceneWitness ==
    /\ SceneActive
    /\ game.currentScene = 2
    /\ game.stage = <<MenuChild, SceneChild(game, 2), UiLayer>>

\* C19 (as claimed): a resize leaves the overlay, the menu and the
\* active scene, whichever it is, laid out for the new size of the screen.
ResizeRelayoutsAll ==
    [][GameResize
          => /\ game'.overlayWidth = game'.screenWidth
             /\ game'.menuWidth = game'.screenWidth
             /\ SceneActive => game'.sceneWidth = game'.screenWidth]_vars

\* C21 (as claimed): once the dialogue scene has run into a data error
\* the shell is back in the menu: that scene is not the active scene.
DataErrorFallsBackToMenu ==
    SceneActive => game.loads[game.currentScene] # "error"

\* C22: whenever a scene is active, the dialogue scene while loading or
\* showing its error message included, the back button is visible, and
\* every Back action ends in the menu state.
BackAlwaysRecovers ==
    /\ [](SceneActive => game.backVisible)
    /\ [][GameShowMenu => MenuState']_vars

\* C22 witness: the menu state, reached by a Back action from a dialogue
\* scene that was showing its error message
RecoveredFromErrorWitness ==
    /\ MenuState
    /\ \E id \in DOMAIN game.kinds :
          /\ game.kinds[id] = "magic-words"
          /\ game.loads[id] = "error"
          /\ game.destroys[id] = 1
    /\ ~game.errorLogged

\* C23 (as claimed): in every display frame the update of the active
\* scene runs, and of no other scene.
ActiveSceneUpdatedEachFrame ==
    [][GameFrame
          => game'.updated = IF SceneActive THEN {game.currentScene} ELSE {}]_vars

\* C37 (as claimed): the shell never calls destroy on a scene it has
\* already destroyed; a scene that is no longer current was destroyed
\* exactly once.
EachSceneDestroyedOnce ==
    \A id \in DOMAIN game.destroys :
        game.destroys[id] = IF id = game.currentScene THEN 0 ELSE 1

====
